---------------------------- MODULE Spec2Model ----------------------------
(***************************************************************************)
(* Model of src/main.py: the strip-partition / parity-interleave / rotate  *)
(* pipeline (module-level code, lines 272-330) and the slicing, retrieval  *)
(* and joining functions it is built from.                                 *)
(*                                                                         *)
(* A pixel buffer is a record [w, h, px] where px maps every position      *)
(* <<x, y>> (0-based, x to the right, y downwards) to a pixel value.  The  *)
(* pixel value of the loaded image is the position it has in that image,   *)
(* so that the provenance of every pixel of a later buffer can be read     *)
(* off; the value Fill is the black background of Image.new and of a crop  *)
(* that reaches outside its image.  Saving to PNG or JPEG and opening the  *)
(* file again keeps the geometry of the buffer (JPEG alters colour values  *)
(* only; positions and dimensions are kept), and the encoder refuses an    *)
(* image with a zero extent.                                               *)
(***************************************************************************)
EXTENDS Integers, Sequences, FiniteSets, TLC

VARIABLES
    pc,             \* position of the script / of the function driver
    round,          \* 1: first pass (l.283-302), 2: second pass (l.305-323)
    num,            \* number_of_slices (l.5), threaded through as a parameter
    B0,             \* the decoded input image (example.jpg)
    image,          \* image / final_image_loaded / merged_image
    dir,            \* the output directory: file name -> stored buffer
    slice_paths,    \* value returned by the last slicing call
    boxes,          \* history: crop boxes of the strips the last slicing call saved
    written,        \* history: file names saved by the last slicing call
    even_slices,    \* l.286 / l.308
    odd_slices,     \* l.287 / l.309
    even_combined,  \* l.290 / l.312
    odd_combined,   \* l.291 / l.313
    shown,          \* the buffer displayed by merged_image.show() (l.324)
    trace,          \* history: the pipeline states entered, in order
    emptyJoin,      \* history: a join was invoked on an empty strip sequence
    image_list,     \* inputs of the join functions (function-level specification)
    joined          \* result of a join (function-level specification)

vars == << pc, round, num, B0, image, dir, slice_paths, boxes, written,
           even_slices, odd_slices, even_combined, odd_combined, shown,
           trace, emptyJoin, image_list, joined >>

-----------------------------------------------------------------------------
(* Bounds of the model *)

MaxW == 4
MaxH == 8
MaxN == 5
MaxPerm == 3
MaxL == 101
MaxJoin == 3
MaxJoinDim == 2

-----------------------------------------------------------------------------
(* Pixel buffers (PIL.Image) *)

Pos(w, h) == (0 .. (w - 1)) \X (0 .. (h - 1))

Fill == << -1, -1 >>

NewImage(w, h) == [w |-> w, h |-> h, px |-> [p \in Pos(w, h) |-> Fill]]

NoImage == NewImage(0, 0)

SourceImage(w, h) == [w |-> w, h |-> h, px |-> [p \in Pos(w, h) |-> p]]

IsEmptyImage(im) == im.w = 0 \/ im.h = 0

\* Image.crop((left, top, right, bottom)): the region, black where it lies
\* outside the image.
Crop(im, left, top, right, bottom) ==
    [w |-> right - left, h |-> bottom - top,
     px |-> [p \in Pos(right - left, bottom - top) |->
                IF p[1] + left < im.w /\ p[2] + top < im.h
                THEN im.px[<< p[1] + left, p[2] + top >>]
                ELSE Fill]]

\* Image.paste(src, (ox, oy)): src overwrites the region of dst it covers.
Paste(dst, src, ox, oy) ==
    [dst EXCEPT !.px =
        [p \in Pos(dst.w, dst.h) |->
            IF /\ ox <= p[1] /\ p[1] < ox + src.w
               /\ oy <= p[2] /\ p[2] < oy + src.h
            THEN src.px[<< p[1] - ox, p[2] - oy >>]
            ELSE dst.px[p]]]

\* variant: the rotation left out
NotRotated(im, angle) == im

\* Image.rotate(angle, expand=1) for angle 90 and 270: counter-clockwise,
\* width and height swapped.
Rotate(im, angle) ==
    IF angle = 90
    THEN [w |-> im.h, h |-> im.w,
          px |-> [p \in Pos(im.h, im.w) |-> im.px[<< im.w - 1 - p[2], p[1] >>]]]
    ELSE [w |-> im.h, h |-> im.w,
          px |-> [p \in Pos(im.h, im.w) |-> im.px[<< p[2], im.h - 1 - p[1] >>]]]

-----------------------------------------------------------------------------
(* The output directory *)

EmptyDir == [x \in {} |-> NoImage]

Put(d, path, im) ==
    [x \in (DOMAIN d) \cup {path} |-> IF x = path THEN im ELSE d[x]]

\* Image.save(path): the encoder raises on an image with a zero extent, and
\* then no file is left behind.
Save(d, path, im) ==
    IF IsEmptyImage(im)
    THEN [ok |-> FALSE, dir |-> d]
    ELSE [ok |-> TRUE, dir |-> Put(d, path, im)]

-----------------------------------------------------------------------------
(* File names: sequences of characters *)

SlicePrefix == << "s", "l", "i", "c", "e", "_" >>
PngExt == << ".", "p", "n", "g" >>
EvenCombinedName ==
    << "e", "v", "e", "n", "_", "c", "o", "m", "b", "i", "n", "e", "d" >> \o PngExt
OddCombinedName ==
    << "o", "d", "d", "_", "c", "o", "m", "b", "i", "n", "e", "d" >> \o PngExt
MergedName ==
    << "m", "e", "r", "g", "e", "d", "_", "i", "m", "a", "g", "e", ".", "j", "p", "g" >>

DigitChars == << "0", "1", "2", "3", "4", "5", "6", "7", "8", "9" >>

RECURSIVE Digits(_)
Digits(i) ==
    IF i < 10 THEN << DigitChars[i + 1] >>
    ELSE Digits(i \div 10) \o << DigitChars[(i % 10) + 1] >>

\* format spec 02d: decimal digits, zero-padded to a minimum width of two
Format02d(i) == IF i < 10 THEN << "0" >> \o Digits(i) ELSE Digits(i)

\* f"slice_{i + 1:02d}.png" with index = i + 1
SliceName(index) == SlicePrefix \o Format02d(index) \o PngExt

StartsWith(s, pre) ==
    Len(s) >= Len(pre) /\ SubSeq(s, 1, Len(pre)) = pre

EndsWith(s, suf) ==
    Len(s) >= Len(suf) /\ SubSeq(s, Len(s) - Len(suf) + 1, Len(s)) = suf

\* str.split(sep) for a one-character separator: the list of segments
RECURSIVE SplitLoop(_, _, _, _)
SplitLoop(s, sep, k, cur) ==
    IF k > Len(s) THEN << cur >>
    ELSE IF s[k] = sep
         THEN << cur >> \o SplitLoop(s, sep, k + 1, << >>)
         ELSE SplitLoop(s, sep, k + 1, Append(cur, s[k]))

Split(s, sep) == SplitLoop(s, sep, 1, << >>)

DigitVal(c) == CHOOSE d \in 0 .. 9 : DigitChars[d + 1] = c

\* int(text) of a string of decimal digits
RECURSIVE ParseInt(_)
ParseInt(ds) ==
    IF Len(ds) = 0 THEN 0
    ELSE 10 * ParseInt(SubSeq(ds, 1, Len(ds) - 1)) + DigitVal(ds[Len(ds)])

\* int(x.split('_')[1].split('.')[0])
SliceNumber(f) == ParseInt(Split(Split(f, "_")[2], ".")[1])


-----------------------------------------------------------------------------
(* os.listdir and get_numbered_slices (l.85-102) *)

RECURSIVE Perms(_)
Perms(S) ==
    IF S = {} THEN { << >> }
    ELSE UNION { { << x >> \o p : p \in Perms(S \ {x}) } : x \in S }

RECURSIVE SetToSeq(_)
SetToSeq(S) ==
    IF S = {} THEN << >>
    ELSE LET x == CHOOSE y \in S : TRUE IN << x >> \o SetToSeq(S \ {x})

Reverse(s) == [k \in 1 .. Len(s) |-> s[Len(s) + 1 - k]]

RotateSeq(s, r) == [k \in 1 .. Len(s) |-> s[((k - 1 + r) % Len(s)) + 1]]

\* os.listdir(output_dir): the names in arbitrary order.  Every order for a
\* directory of at most MaxPerm files; for a larger one an enumeration, its
\* reverse and a rotation of it.
ListDir(d) ==
    LET S == DOMAIN d IN
    IF Cardinality(S) <= MaxPerm THEN Perms(S)
    ELSE LET e == SetToSeq(S) IN
         { e, Reverse(e), RotateSeq(e, Cardinality(S) \div 2) }

IsSliceFile(f) == StartsWith(f, SlicePrefix) /\ EndsWith(f, PngExt)

\* text order of two digit strings
RECURSIVE LexLE(_, _)
LexLE(a, b) ==
    IF Len(a) = 0 THEN TRUE
    ELSE IF Len(b) = 0 THEN FALSE
    ELSE IF a[1] = b[1] THEN LexLE(Tail(a), Tail(b))
    ELSE DigitVal(a[1]) < DigitVal(b[1])

\* variant: the numeric segments compared as text
KeyLELexical(a, b) ==
    LexLE(Split(Split(a.name, "_")[2], ".")[1], Split(Split(b.name, "_")[2], ".")[1])

\* the order of the keys int(x.split('_')[1].split('.')[0]) (l.101)
KeyLE(a, b) == a.key <= b.key

\* list.sort(key=...) computes the key of every element once and orders the
\* elements by key; it is stable.  The place of element i in the result is
\* one more than the number of elements that go before it: those of a
\* smaller key, and those of an equal key that precede it in the input.
SortByNumber(s) ==
    LET decorated == [k \in 1 .. Len(s) |-> [key |-> SliceNumber(s[k]), name |-> s[k]]]
        n == Len(decorated)
        place == [i \in 1 .. n |->
                    Cardinality({ j \in 1 .. n : ~KeyLE(decorated[i], decorated[j]) })
                  + Cardinality({ j \in 1 .. i : KeyLE(decorated[j], decorated[i])
                                                 /\ KeyLE(decorated[i], decorated[j]) })]
    IN [p \in 1 .. Len(place) |-> s[CHOOSE i \in 1 .. n : place[i] = p]]

HasParity(f, even) == ((SliceNumber(f) % 2 = 0) = even)

GetNumberedSlices(listing, even) ==
    LET files == SelectSeq(listing, IsSliceFile)
        filtered == SelectSeq(files, LAMBDA f : HasParity(f, even))
    IN SortByNumber(filtered)

-----------------------------------------------------------------------------
(* slice_image_vertically (l.160-192): column bands *)

\* variant: slice width short by one column of the total
SliceWidthOffByOne(width, n) == (width - 1) \div n

\* l.173
SliceWidth(width, n) == width \div n

\* variant: the last slice not extended to the edge
SliceRightNoEdge(i, n, sw, width) == (i + 1) * sw

\* l.180: the last slice extends to the image edge
SliceRight(i, n, sw, width) == IF i = n - 1 THEN width ELSE (i + 1) * sw

RECURSIVE SliceVLoop(_, _, _, _, _)
SliceVLoop(im, n, sw, i, acc) ==
    IF i = n THEN acc
    ELSE LET left == i * sw
             right == SliceRight(i, n, sw, im.w)
             slice_img == Crop(im, left, 0, right, im.h)
             slice_path == SliceName(i + 1)
             sv == Save(acc.dir, slice_path, slice_img)
         IN IF ~sv.ok
            THEN [acc EXCEPT !.ok = FALSE]
            ELSE SliceVLoop(im, n, sw, i + 1,
                            [ok |-> TRUE,
                             paths |-> Append(acc.paths, slice_path),
                             dir |-> sv.dir,
                             boxes |-> Append(acc.boxes, << left, right >>)])

\* [ok, paths, dir, boxes]: ok is FALSE when a save raised, which ends the
\* call at that strip; paths is then what had been saved before it.
SliceVertically(im, n, d) ==
    SliceVLoop(im, n, SliceWidth(im.w, n), 0,
               [ok |-> TRUE, paths |-> << >>, dir |-> d, boxes |-> << >>])

-----------------------------------------------------------------------------
(* slice_image_horizontally (l.105-158): row bands *)

MaxOf(a, b) == IF a >= b THEN a ELSE b

\* l.123
SliceHeight(height, n) == MaxOf(1, height \div n)

\* l.131-134
RowBottom(i, n, sh, height) == IF i = n - 1 THEN height ELSE (i + 1) * sh

\* variant: a slice of one row skipped as well
SkipSliceOffByOne(top, bottom) == bottom <= top + 1

\* l.137: skip if the slice would have zero height
SkipSlice(top, bottom) == bottom <= top

RECURSIVE SliceHLoop(_, _, _, _, _)
SliceHLoop(im, n, sh, i, acc) ==
    IF i = n THEN acc
    ELSE LET top == i * sh
             bottom == RowBottom(i, n, sh, im.h)
         IN IF SkipSlice(top, bottom)
            THEN SliceHLoop(im, n, sh, i + 1, acc)
            ELSE LET slice_img == Crop(im, 0, top, im.w, bottom)
                     slice_path == SliceName(i + 1)
                     sv == Save(acc.dir, slice_path, slice_img)
                 IN IF ~sv.ok
                    THEN SliceHLoop(im, n, sh, i + 1, acc)
                    ELSE SliceHLoop(im, n, sh, i + 1,
                                    [ok |-> TRUE,
                                     paths |-> Append(acc.paths, slice_path),
                                     dir |-> sv.dir,
                                     boxes |-> Append(acc.boxes, << top, bottom >>)])

SliceHorizontally(im, n, d) ==
    SliceHLoop(im, n, SliceHeight(im.h, n), 0,
               [ok |-> TRUE, paths |-> << >>, dir |-> d, boxes |-> << >>])

-----------------------------------------------------------------------------
(* The joins: stitch_images_horizontally (l.56-82),                        *)
(* stitch_images_vertically (l.31-54), merge_images_horizontally (l.7-29)  *)

RECURSIVE SumWidth(_)
SumWidth(images) ==
    IF Len(images) = 0 THEN 0
    ELSE SumWidth(SubSeq(images, 1, Len(images) - 1)) + images[Len(images)].w

RECURSIVE SumHeight(_)
SumHeight(images) ==
    IF Len(images) = 0 THEN 0
    ELSE SumHeight(SubSeq(images, 1, Len(images) - 1)) + images[Len(images)].h

\* max() of a non-empty sequence
RECURSIVE MaxHeight(_)
MaxHeight(images) ==
    IF Len(images) = 1 THEN images[1].h
    ELSE MaxOf(MaxHeight(SubSeq(images, 1, Len(images) - 1)), images[Len(images)].h)

RECURSIVE MaxWidth(_)
MaxWidth(images) ==
    IF Len(images) = 1 THEN images[1].w
    ELSE MaxOf(MaxWidth(SubSeq(images, 1, Len(images) - 1)), images[Len(images)].w)

\* variant: the offset never advanced
NextOffsetStuck(offset, extent) == offset

\* l.52, l.80: x_offset += img.width, y_offset += img.height
NextOffset(offset, extent) == offset + extent

RECURSIVE PasteAcross(_, _, _, _)
PasteAcross(combined, images, k, x_offset) ==
    IF k > Len(images) THEN combined
    ELSE PasteAcross(Paste(combined, images[k], x_offset, 0), images, k + 1,
                     NextOffset(x_offset, images[k].w))

RECURSIVE PasteDown(_, _, _, _)
PasteDown(combined, images, k, y_offset) ==
    IF k > Len(images) THEN combined
    ELSE PasteDown(Paste(combined, images[k], 0, y_offset), images, k + 1,
                   NextOffset(y_offset, images[k].h))

\* Image.open of every path
OpenAll(paths, d) == [k \in 1 .. Len(paths) |-> d[paths[k]]]

\* [ok, img]: max() of an empty sequence raises ValueError (l.71)
StitchHorizontally(image_paths, d) ==
    LET images == OpenAll(image_paths, d) IN
    IF Len(images) = 0 THEN [ok |-> FALSE, img |-> NoImage]
    ELSE [ok |-> TRUE,
          img |-> PasteAcross(NewImage(SumWidth(images), MaxHeight(images)),
                              images, 1, 0)]

\* [ok, img]: max() of an empty sequence raises ValueError (l.43)
StitchVertically(images) ==
    IF Len(images) = 0 THEN [ok |-> FALSE, img |-> NoImage]
    ELSE [ok |-> TRUE,
          img |-> PasteDown(NewImage(MaxWidth(images), SumHeight(images)),
                            images, 1, 0)]

\* the buffer merge_images_horizontally builds (l.15-27)
MergedImage(image1, image2) ==
    Paste(Paste(NewImage(image1.w + image2.w, MaxOf(image1.h, image2.h)),
                image1, 0, 0),
          image2, image1.w, 0)

\* [ok, dir]: the merged buffer saved under output_path (l.29)
MergeHorizontally(image_path1, image_path2, output_path, d) ==
    IF image_path1 \in DOMAIN d /\ image_path2 \in DOMAIN d
    THEN Save(d, output_path, MergedImage(d[image_path1], d[image_path2]))
    ELSE [ok |-> FALSE, dir |-> d]

-----------------------------------------------------------------------------
(* The script (l.272-330) *)

\* variant: the directory of an earlier run kept
KeepDirectory(d) == d

\* delete_output_directory then create_output_directory (l.274-277): an
\* empty directory, whatever was there
CleanDirectory(d) == EmptyDir

\* what an earlier run that ended in the except branch (which skips l.327)
\* may have left behind
StaleDir(n) ==
    Put(Put(EmptyDir, SliceName(n + 1), NewImage(1, 1)), EvenCombinedName, NewImage(1, 1))

\* numbering of the pipeline states: 0 Load, 1-5 first pass, 6-10 second pass
StateNumber(base, r) == base + 5 * (r - 1)

\* the angle of the rotation that ends a pass (l.302, l.323)
Angle(r) == IF r = 1 THEN 90 ELSE 270

\* variant: the exception swallowed, the script going on
AfterIgnoringError(ok, next) == next

\* try / except Exception (l.272, l.329-330): a raising step ends the script
After(ok, next) == IF ok THEN next ELSE "Error"

SeqRange(s) == { s[k] : k \in 1 .. Len(s) }

InitCommon ==
    /\ round = 1
    /\ image = NoImage
    /\ slice_paths = << >>
    /\ boxes = << >>
    /\ written = {}
    /\ even_slices = << >>
    /\ odd_slices = << >>
    /\ even_combined = NoImage
    /\ odd_combined = NoImage
    /\ shown = NoImage
    /\ trace = << >>
    /\ emptyJoin = FALSE
    /\ joined = NoImage

Init ==
    /\ InitCommon
    /\ pc = "Load"
    /\ num \in 1 .. MaxN
    /\ B0 \in { SourceImage(w, h) : w \in 1 .. MaxW, h \in 1 .. MaxH }
    /\ dir \in { EmptyDir, StaleDir(num) }
    /\ image_list = << >>

\* l.274-280
LoadStep ==
    /\ pc = "Load"
    /\ dir' = CleanDirectory(dir)
    /\ image' = B0
    /\ trace' = Append(trace, StateNumber(0, 1))
    /\ pc' = "Slice"
    /\ UNCHANGED << round, num, B0, slice_paths, boxes, written, even_slices,
                    odd_slices, even_combined, odd_combined, shown, emptyJoin,
                    image_list, joined >>

\* l.283, l.305
SliceStep ==
    /\ pc = "Slice"
    /\ LET r == SliceVertically(image, num, dir) IN
        /\ dir' = r.dir
        /\ slice_paths' = IF r.ok THEN r.paths ELSE slice_paths
        /\ boxes' = r.boxes
        /\ written' = SeqRange(r.paths)
        /\ pc' = After(r.ok, "Split")
    /\ trace' = Append(trace, StateNumber(1, round))
    /\ UNCHANGED << round, num, B0, image, even_slices, odd_slices,
                    even_combined, odd_combined, shown, emptyJoin, image_list,
                    joined >>

\* l.286-287, l.308-309: each call lists the directory
SplitStep ==
    /\ pc = "Split"
    /\ \E e \in { GetNumberedSlices(l, TRUE) : l \in ListDir(dir) } :
       \E o \in { GetNumberedSlices(l, FALSE) : l \in ListDir(dir) } :
          /\ even_slices' = e
          /\ odd_slices' = o
    /\ trace' = Append(trace, StateNumber(2, round))
    /\ pc' = "Join"
    /\ UNCHANGED << round, num, B0, image, dir, slice_paths, boxes, written,
                    even_combined, odd_combined, shown, emptyJoin, image_list,
                    joined >>

\* l.290-295, l.312-316: even group, odd group, then both are saved
JoinStep ==
    /\ pc = "Join"
    /\ LET ev == StitchHorizontally(even_slices, dir)
           od == StitchHorizontally(odd_slices, dir)
           stitched == ev.ok /\ od.ok
           s1 == Save(dir, EvenCombinedName, ev.img)
           s2 == Save(s1.dir, OddCombinedName, od.img)
       IN
        /\ even_combined' = IF ev.ok THEN ev.img ELSE even_combined
        /\ odd_combined' = IF stitched THEN od.img ELSE odd_combined
        /\ dir' = IF ~stitched THEN dir ELSE IF s1.ok THEN s2.dir ELSE dir
        /\ emptyJoin' = (emptyJoin \/ Len(even_slices) = 0
                            \/ (ev.ok /\ Len(odd_slices) = 0))
        /\ pc' = After(stitched /\ s1.ok /\ s2.ok, "Concat")
    /\ trace' = Append(trace, StateNumber(3, round))
    /\ UNCHANGED << round, num, B0, image, slice_paths, boxes, written,
                    even_slices, odd_slices, shown, image_list, joined >>

\* l.298-299, l.319 and l.322: merge odd + even into merged_image.jpg, load it
ConcatStep ==
    /\ pc = "Concat"
    /\ LET m == MergeHorizontally(OddCombinedName, EvenCombinedName, MergedName, dir) IN
        /\ dir' = m.dir
        /\ image' = IF m.ok THEN m.dir[MergedName] ELSE image
        /\ pc' = After(m.ok, "Rotate")
    /\ trace' = Append(trace, StateNumber(4, round))
    /\ UNCHANGED << round, num, B0, slice_paths, boxes, written, even_slices,
                    odd_slices, even_combined, odd_combined, shown, emptyJoin,
                    image_list, joined >>

\* l.302: rotate(90, expand=1); l.323: rotate(270, expand=1)
RotateStep ==
    /\ pc = "Rotate"
    /\ image' = Rotate(image, Angle(round))
    /\ round' = 2
    /\ pc' = IF round = 1 THEN "Slice" ELSE "Show"
    /\ trace' = Append(trace, StateNumber(5, round))
    /\ UNCHANGED << num, B0, dir, slice_paths, boxes, written, even_slices,
                    odd_slices, even_combined, odd_combined, shown, emptyJoin,
                    image_list, joined >>

\* l.324-327: show the result, remove the directory
ShowStep ==
    /\ pc = "Show"
    /\ shown' = image
    /\ dir' = EmptyDir
    /\ pc' = "Done"
    /\ UNCHANGED << round, num, B0, image, slice_paths, boxes, written,
                    even_slices, odd_slices, even_combined, odd_combined,
                    trace, emptyJoin, image_list, joined >>

Next ==
    \/ LoadStep
    \/ SliceStep
    \/ SplitStep
    \/ JoinStep
    \/ ConcatStep
    \/ RotateStep
    \/ ShowStep

Spec == Init /\ [][Next]_vars

-----------------------------------------------------------------------------
(* Properties of the pipeline *)

Final == pc \in {"Show", "Done"}

Dims(im) == << im.w, im.h >>

\* C1: whenever the two-pass pipeline reaches Final with N >= 2, Final has
\* the width and height of the input, every pixel position of the input
\* occurs at exactly one position of Final, and no position of Final holds
\* background fill.
C1_FinalIsRearrangement ==
    (Final /\ num >= 2) =>
        /\ image.w = B0.w
        /\ image.h = B0.h
        /\ \A p \in Pos(B0.w, B0.h) :
              Cardinality({ q \in Pos(image.w, image.h) : image.px[q] = p }) = 1
        /\ \A q \in Pos(image.w, image.h) : image.px[q] # Fill

\* a run that ends with a picture different from the input, the last strip
\* of the first pass having absorbed a remainder
C1_Witness ==
    /\ pc = "Done"
    /\ num >= 2
    /\ B0.w % num # 0
    /\ shown # B0
    /\ shown = image

Scenario == B0.w = 4 /\ B0.h = 8 /\ num = 4

StripDims == [k \in 1 .. Len(slice_paths) |-> Dims(dir[slice_paths[k]])]

\* C2 as stated: on a 4 wide, 8 tall buffer with N = 4 the first pass yields
\* 4 strips each 4 wide and 2 tall, Odd = {1,3} and Even = {2,4}, two joined
\* buffers 8 wide and 2 tall, a concatenation 16 wide and 2 tall, and after
\* the rotation by 90 degrees a buffer 2 wide and 16 tall.
C2_AsStated ==
    Scenario =>
        /\ (round = 1 /\ pc = "Split") =>
              StripDims = << << 4, 2 >>, << 4, 2 >>, << 4, 2 >>, << 4, 2 >> >>
        /\ (round = 1 /\ pc = "Join") =>
              /\ odd_slices = << SliceName(1), SliceName(3) >>
              /\ even_slices = << SliceName(2), SliceName(4) >>
        /\ (round = 1 /\ pc = "Concat") =>
              /\ Dims(odd_combined) = << 8, 2 >>
              /\ Dims(even_combined) = << 8, 2 >>
        /\ (round = 1 /\ pc = "Rotate") => Dims(image) = << 16, 2 >>
        /\ (round = 2 /\ pc = "Slice") => Dims(image) = << 2, 16 >>

\* C2 amended: on a 4 wide, 8 tall buffer with N = 4 the first pass yields
\* 4 strips each 1 wide and 8 tall, Odd = {1,3} and Even = {2,4}, two joined
\* buffers 2 wide and 8 tall, a concatenation 4 wide and 8 tall, and after
\* the rotation by 90 degrees a buffer 8 wide and 4 tall.
C2_FirstPassDimensions ==
    Scenario =>
        /\ (round = 1 /\ pc = "Split") =>
              StripDims = << << 1, 8 >>, << 1, 8 >>, << 1, 8 >>, << 1, 8 >> >>
        /\ (round = 1 /\ pc = "Join") =>
              /\ odd_slices = << SliceName(1), SliceName(3) >>
              /\ even_slices = << SliceName(2), SliceName(4) >>
        /\ (round = 1 /\ pc = "Concat") =>
              /\ Dims(odd_combined) = << 2, 8 >>
              /\ Dims(even_combined) = << 2, 8 >>
        /\ (round = 1 /\ pc = "Rotate") => Dims(image) = << 4, 8 >>
        /\ (round = 2 /\ pc = "Slice") => Dims(image) = << 8, 4 >>

\* the first pass of the scenario has run to its end
C2_Witness == Scenario /\ round = 2 /\ pc = "Slice" /\ trace = << 0, 1, 2, 3, 4, 5 >>

SliceCalled == Len(trace) > 0 /\ trace[Len(trace)] \in {1, 6}

\* C4 as stated: for every width W >= 1 and every N >= 1 column-band slicing
\* returns exactly N strips, named in index order 1..N, strip i < N covering
\* the columns [(i-1)*base, i*base) and strip N the columns [(N-1)*base, W),
\* base = W // N, so that every column 0..W-1 is covered exactly once.
C4_AsStated ==
    SliceCalled =>
        /\ slice_paths = [i \in 1 .. num |-> SliceName(i)]
        /\ boxes = [i \in 1 .. num |->
                       << (i - 1) * (image.w \div num),
                          IF i = num THEN image.w ELSE i * (image.w \div num) >>]
        /\ \A c \in 0 .. (image.w - 1) :
              Cardinality({ i \in 1 .. Len(boxes) :
                              boxes[i][1] <= c /\ c < boxes[i][2] }) = 1

InRangeAsStated == 1 <= num /\ num <= B0.h /\ num <= B0.w

InRange == 2 <= num /\ num <= B0.h /\ num <= B0.w

AllStates == [k \in 1 .. 11 |-> k - 1]

IsPrefix(s, t) == Len(s) <= Len(t) /\ s = SubSeq(t, 1, Len(s))

\* C6 as stated: with 1 <= N <= image height at both slicing steps (the
\* height is H at the first and W at the second) the pipeline does not abort.
C6_AsStated == InRangeAsStated => pc # "Error"

StateNames ==
    << "Load", "Slice", "Split", "Join", "Concat", "Rotate",
       "Slice", "Split", "Join", "Concat", "Rotate" >>

\* C6 amended: with 2 <= N <= image height at both slicing steps the
\* pipeline never aborts, the states it has entered are at every moment the
\* first states of 0, 1, ..., 10 in that order, the state it is about to
\* enter is the next of them, and at Final it has entered all eleven, each
\* once.
C6_RunsToFinal ==
    InRange =>
        /\ pc # "Error"
        /\ IsPrefix(trace, AllStates)
        /\ Len(trace) < Len(AllStates) => pc = StateNames[Len(trace) + 1]
        /\ Len(trace) = Len(AllStates) => Final
        /\ Final => trace = AllStates

C6_Witness == InRange /\ pc = "Done" /\ trace = AllStates /\ B0.w # B0.h

NoRepeat(s) == \A i, j \in 1 .. Len(s) : s[i] = s[j] => i = j

\* C7: once a join has been invoked on an empty strip sequence, the pipeline
\* is in its error state with the failed join the last state entered, no
\* state entered twice, and nothing produced as Final or displayed.
C7_EmptyJoinAborts ==
    emptyJoin =>
        /\ pc = "Error"
        /\ trace[Len(trace)] \in {3, 8}
        /\ NoRepeat(trace)
        /\ ~(10 \in SeqRange(trace))
        /\ shown = NoImage
        /\ ~ENABLED Next

C7_Witness == emptyJoin /\ pc = "Error" /\ Len(odd_slices) > 0

SliceFiles(d) == { f \in DOMAIN d : IsSliceFile(f) }

Artifacts == { EvenCombinedName, OddCombinedName, MergedName }

\* C10: at each parity split the strip files in the directory are exactly
\* those the preceding slice step saved, holding the strips of the buffer
\* that step sliced; the groups the split returns hold those names only,
\* never one of the other artifacts.
C10_SplitSeesOwnStrips ==
    /\ pc = "Split" =>
          /\ SliceFiles(dir) = written
          /\ written = SeqRange(slice_paths)
          /\ \A k \in 1 .. Len(slice_paths) :
                dir[slice_paths[k]] = Crop(image, boxes[k][1], 0, boxes[k][2], image.h)
    /\ pc = "Join" =>
          /\ SeqRange(even_slices) \cup SeqRange(odd_slices) = written
          /\ SeqRange(even_slices) \cap SeqRange(odd_slices) = {}
          /\ (SeqRange(even_slices) \cup SeqRange(odd_slices)) \cap Artifacts = {}

\* the split of the second pass, the artifacts of the first in the directory
C10_Witness ==
    /\ pc = "Join"
    /\ round = 2
    /\ Artifacts \subseteq DOMAIN dir
    /\ Len(even_slices) > 0

-----------------------------------------------------------------------------
(* Row-band slicing applied to every buffer and slice count of the bounds, *)
(* the strips then stacked by stitch_images_vertically                     *)

InitRows ==
    /\ InitCommon
    /\ pc = "RowSlice"
    /\ num \in 1 .. MaxN
    /\ B0 \in { SourceImage(w, h) : w \in 1 .. MaxW, h \in 1 .. MaxH }
    /\ dir = EmptyDir
    /\ image_list = << >>

\* slice_image_horizontally(image, num_slices, output_dir)
RowSliceStep ==
    /\ pc = "RowSlice"
    /\ image' = B0
    /\ LET r == SliceHorizontally(B0, num, dir) IN
        /\ dir' = r.dir
        /\ slice_paths' = r.paths
        /\ boxes' = r.boxes
        /\ written' = SeqRange(r.paths)
    /\ pc' = "RowStitch"
    /\ UNCHANGED << round, num, B0, even_slices, odd_slices, even_combined,
                    odd_combined, shown, trace, emptyJoin, image_list, joined >>

\* stitch_images_vertically on the strips, opened in index order
RowStitchStep ==
    /\ pc = "RowStitch"
    /\ image_list' = OpenAll(slice_paths, dir)
    /\ LET r == StitchVertically(OpenAll(slice_paths, dir)) IN
        /\ joined' = r.img
        /\ pc' = After(r.ok, "RowDone")
    /\ UNCHANGED << round, num, B0, image, dir, slice_paths, boxes, written,
                    even_slices, odd_slices, even_combined, odd_combined,
                    shown, trace, emptyJoin >>

NextRows == RowSliceStep \/ RowStitchStep

SpecRows == InitRows /\ [][NextRows]_vars

RowsSliced == pc \in {"RowStitch", "RowDone"}

RECURSIVE SeqSum(_)
SeqSum(s) == IF Len(s) = 0 THEN 0 ELSE s[1] + SeqSum(Tail(s))

\* C3 as stated: for every buffer and every N >= 1 the heights of the strips
\* returned by row-band slicing sum to H, every strip has width W, and the
\* strips stacked in index order have the dimensions of the buffer.
C3_AsStated ==
    /\ RowsSliced =>
          /\ SeqSum([k \in 1 .. Len(slice_paths) |-> dir[slice_paths[k]].h]) = B0.h
          /\ \A k \in 1 .. Len(slice_paths) : dir[slice_paths[k]].w = B0.w
    /\ pc = "RowDone" => Dims(joined) = Dims(B0)

\* C8: row-band slicing of a buffer of height H into N bands returns at most
\* N strips, and exactly N whenever H // N >= 1.
C8_StripCount ==
    RowsSliced =>
        /\ Len(slice_paths) <= num
        /\ (B0.h \div num >= 1) => Len(slice_paths) = num

\* N strips of a height that N does not divide
C8_Witness ==
    /\ RowsSliced
    /\ num >= 2
    /\ B0.h \div num >= 1
    /\ B0.h % num # 0
    /\ Len(slice_paths) = num

-----------------------------------------------------------------------------
(* The joins applied to every sequence of buffers of the bounds *)

TaggedImage(k, w, h) ==
    [w |-> w, h |-> h, px |-> [p \in Pos(w, h) |-> << k, p[1], p[2] >>]]

JoinSizes ==
    UNION { [1 .. n -> (1 .. MaxJoinDim) \X (1 .. MaxJoinDim)] : n \in 1 .. MaxJoin }

InitJoin ==
    /\ InitCommon
    /\ pc = "JoinInputs"
    /\ num = 1
    /\ B0 = NoImage
    /\ \E sizes \in JoinSizes :
          /\ image_list = [k \in 1 .. Len(sizes) |->
                              TaggedImage(k, sizes[k][1], sizes[k][2])]
          /\ dir = [f \in { SliceName(k) : k \in 1 .. Len(sizes) } |->
                      TaggedImage(SliceNumber(f), sizes[SliceNumber(f)][1],
                                  sizes[SliceNumber(f)][2])]

InputPaths == [k \in 1 .. Len(image_list) |-> SliceName(k)]

\* stitch_images_horizontally(image_paths)
StitchHStep ==
    /\ pc = "JoinInputs"
    /\ LET r == StitchHorizontally(InputPaths, dir) IN
        /\ joined' = r.img
        /\ pc' = After(r.ok, "JoinedH")
    /\ UNCHANGED << round, num, B0, image, dir, slice_paths, boxes, written,
                    even_slices, odd_slices, even_combined, odd_combined,
                    shown, trace, emptyJoin, image_list >>

\* stitch_images_vertically(image_list)
StitchVStep ==
    /\ pc = "JoinInputs"
    /\ LET r == StitchVertically(image_list) IN
        /\ joined' = r.img
        /\ pc' = After(r.ok, "JoinedV")
    /\ UNCHANGED << round, num, B0, image, dir, slice_paths, boxes, written,
                    even_slices, odd_slices, even_combined, odd_combined,
                    shown, trace, emptyJoin, image_list >>

\* merge_images_horizontally(image_path1, image_path2, output_path) on any
\* two of the files; the merged file is then opened
MergeStep ==
    /\ pc = "JoinInputs"
    /\ \E a, b \in 1 .. Len(image_list) :
          LET m == MergeHorizontally(InputPaths[a], InputPaths[b], MergedName, dir) IN
            /\ image_list' = << dir[InputPaths[a]], dir[InputPaths[b]] >>
            /\ dir' = m.dir
            /\ joined' = IF m.ok THEN m.dir[MergedName] ELSE joined
            /\ pc' = After(m.ok, "Merged")
    /\ UNCHANGED << round, num, B0, image, slice_paths, boxes, written,
                    even_slices, odd_slices, even_combined, odd_combined,
                    shown, trace, emptyJoin >>

NextJoin == StitchHStep \/ StitchVStep \/ MergeStep

SpecJoin == InitJoin /\ [][NextJoin]_vars

Widths == [k \in 1 .. Len(image_list) |-> image_list[k].w]

Heights == [k \in 1 .. Len(image_list) |-> image_list[k].h]

SeqMax(s) == CHOOSE m \in SeqRange(s) : \A x \in SeqRange(s) : x <= m

\* summed extents of the inputs before input k
OffsetOf(s, k) == SeqSum(SubSeq(s, 1, k - 1))

\* C9: the buffer a join produces from a non-empty sequence of buffers has,
\* along the join axis, the sum of the inputs' extents and, across it, the
\* maximum of theirs, and shows input k at the offset that is the sum of
\* the extents of the inputs before it.
C9_JoinExtents ==
    /\ pc \in {"JoinedH", "Merged"} =>
          /\ joined.w = SeqSum(Widths)
          /\ joined.h = SeqMax(Heights)
          /\ \A k \in 1 .. Len(image_list) :
                \A p \in Pos(image_list[k].w, image_list[k].h) :
                   joined.px[<< OffsetOf(Widths, k) + p[1], p[2] >>] = image_list[k].px[p]
    /\ pc = "JoinedV" =>
          /\ joined.h = SeqSum(Heights)
          /\ joined.w = SeqMax(Widths)
          /\ \A k \in 1 .. Len(image_list) :
                \A p \in Pos(image_list[k].w, image_list[k].h) :
                   joined.px[<< p[1], OffsetOf(Heights, k) + p[2] >>] = image_list[k].px[p]

\* three inputs of unequal heights joined side by side
C9_Witness ==
    /\ pc = "JoinedH"
    /\ Len(image_list) = 3
    /\ image_list[1].h # image_list[2].h
    /\ joined.w = image_list[1].w + image_list[2].w + image_list[3].w

-----------------------------------------------------------------------------
(* Strips 1..L persisted by the slicer and retrieved by parity *)

InitNames ==
    /\ InitCommon
    /\ pc = "Persist"
    /\ num \in 1 .. MaxL
    /\ B0 = SourceImage(num, 1)
    /\ dir = EmptyDir
    /\ image_list = << >>

\* slice_image_vertically names the strips (l.186); the directory may hold
\* the pipeline's other artifacts as well
PersistStep ==
    /\ pc = "Persist"
    /\ image' = B0
    /\ LET r == SliceVertically(B0, num, dir) IN
        /\ \E others \in BOOLEAN :
              dir' = IF others
                     THEN Put(Put(Put(r.dir, EvenCombinedName, NewImage(1, 1)),
                                  OddCombinedName, NewImage(1, 1)),
                              MergedName, NewImage(1, 1))
                     ELSE r.dir
        /\ slice_paths' = r.paths
        /\ boxes' = r.boxes
        /\ written' = SeqRange(r.paths)
        /\ pc' = After(r.ok, "Retrieve")
    /\ UNCHANGED << round, num, B0, even_slices, odd_slices, even_combined,
                    odd_combined, shown, trace, emptyJoin, image_list, joined >>

\* get_numbered_slices(output_dir, even=True), then with even=False
RetrieveStep ==
    /\ pc = "Retrieve"
    /\ \E e \in { GetNumberedSlices(l, TRUE) : l \in ListDir(dir) } :
       \E o \in { GetNumberedSlices(l, FALSE) : l \in ListDir(dir) } :
          /\ even_slices' = e
          /\ odd_slices' = o
    /\ pc' = "Retrieved"
    /\ UNCHANGED << round, num, B0, image, dir, slice_paths, boxes, written,
                    even_combined, odd_combined, shown, trace, emptyJoin,
                    image_list, joined >>

NextNames == PersistStep \/ RetrieveStep

SpecNames == InitNames /\ [][NextNames]_vars

\* C5: for strips 1..L persisted as slice_<i:02d>.png, the odd group
\* retrieved is the names of the odd indices in ascending order and the even
\* group the names of the even indices in ascending order, whatever the
\* order of the directory listing, so that every index 1..L is in exactly
\* one group, once, and the two lengths sum to L.
C5_ParityRetrieval ==
    pc = "Retrieved" =>
        /\ odd_slices = [k \in 1 .. ((num + 1) \div 2) |-> SliceName(2 * k - 1)]
        /\ even_slices = [k \in 1 .. (num \div 2) |-> SliceName(2 * k)]
        /\ Len(odd_slices) + Len(even_slices) = num
        /\ \A i \in 1 .. num :
              Cardinality({ k \in 1 .. Len(odd_slices) : odd_slices[k] = SliceName(i) })
            + Cardinality({ k \in 1 .. Len(even_slices) : even_slices[k] = SliceName(i) })
            = 1

\* a hundred strips or more, retrieved beside the other artifacts
C5_Witness ==
    /\ pc = "Retrieved"
    /\ num >= 100
    /\ MergedName \in DOMAIN dir
    /\ even_slices[Len(even_slices)] = SliceName(100)

=============================================================================
